---- MODULE Spec2Model ----
(***************************************************************************)
(* Model of the speak-ai backend: the users and agents tables, the         *)
(* conversational-agent provider (ElevenLabs) and the telephony provider   *)
(* (Twilio) as far as the agent lifecycle handlers of routers/agent.py     *)
(* read and change them, and the handlers create_agent, update_agent and   *)
(* delete_agent.  Every handler is an `async def` without an await on its  *)
(* path, so one request runs to completion before the next one starts.     *)
(* create_agent and update_agent are one action each; delete_agent, whose  *)
(* steps all go on whatever the providers answer, is one action per step,  *)
(* and no other request is taken up before its last step.  What the        *)
(* providers answer is chosen by the environment.  `last` records the      *)
(* request that has just been answered: its inputs, its status code, the   *)
(* step it ended in and the upstream and database calls it issued, in      *)
(* order.  `hist` remembers which agents were created without a voice      *)
(* sample, given a new voice by an update, or deleted.                     *)
(*                                                                         *)
(* Two specifications.  Spec is the service as wired: the current_user of  *)
(* an authenticated endpoint is what get_current_active_user returns, a    *)
(* User built by User.from_db_row.  SpecHandlers applies the same handlers *)
(* to a current_user that carries the columns get_user_by_email selects,   *)
(* by name (role included), which is the argument the handler bodies are   *)
(* written against; it is the specification for statements about what a    *)
(* handler does after its role test.                                       *)
(*                                                                         *)
(* The batch handlers (batch_calling and the status, cancel and retry      *)
(* requests by call_name) work on the batch_calls table and on the jobs    *)
(* the provider holds; `reply` records the batch request that has just     *)
(* been answered.  Each is one action: the only await of batch_calling is  *)
(* the read of the uploaded file, before any call or statement.  They sit  *)
(* behind the same role test as delete_agent, and SpecBatch (submissions)  *)
(* and SpecJobs (requests about a job, while the provider moves it on)     *)
(* apply them to the current_user of SpecHandlers.  SpecOrphans adds the   *)
(* steps of delete_agent to the requests about a job.                      *)
(*                                                                         *)
(* pause_twilio_number and resume_twilio_number set what the provider      *)
(* holds as the agent of a number (`assoc`); SpecNumbers applies them,     *)
(* after provisioning, to the current_user of SpecHandlers.                *)
(*                                                                         *)
(* SpecAuth is the authentication layer: login and an authenticated        *)
(* endpoint under the JWT settings of the deployment (`config`), and       *)
(* signup statement by statement; `auth` records its last answer.          *)
(* SpecWorkers serves delete_agent and update_agent statement by           *)
(* statement on several worker processes (`workers`), which is how the     *)
(* requests run where the application is served by more than one process.  *)
(***************************************************************************)
EXTENDS Integers, Sequences, FiniteSets, TLC

VARIABLES users, agents, nextRowId, seq, twOwned, hist, req, last,
          batch_calls, jobs, reply, assoc, workers, config, auth

\* the batch_calls table, the jobs the provider holds, the answer of the last batch request
batchVars == <<batch_calls, jobs, reply>>

\* the requests the worker processes are serving, the JWT settings of the deployment and
\* the answer of the last request to the authentication layer
sideVars == <<workers, config, auth>>

\* assoc: for the numbers for which the provider has accepted a PATCH of pause or
\* resume, the agent it holds for the number since (None: no agent), as pairs of a
\* phone_number_id and an agent_id.  A number without a pair is as provisioning left it
\* (last.link_status of its create request)
vars ==
    <<users, agents, nextRowId, seq, twOwned, hist, req, last, batchVars, assoc, sideVars>>

(***************************************************************************)
(* Bounds of the model.  MaxProvisions: the requests that get as far as a  *)
(* provider (each is handed identifiers no request was handed before);     *)
(* MaxNumbers: the numbers Twilio has on offer.                            *)
(***************************************************************************)
MaxProvisions == 2

MaxNumbers == 2

(***************************************************************************)
(* Values.                                                                 *)
(***************************************************************************)
None == "None"

\* the booleans of a column or an attribute, as values comparable with the strings
True == "True"

False == "False"

Exc == 0 - 1

DefaultVoice == "IKne3meq5aSn9XLyUdCD"

Truthy(x) == x \notin {None, ""}

Id(prefix, k) == prefix \o ToString(k)

Numbers == {Id("+1555000", k) : k \in 1..MaxNumbers}

AgentNames == {"sales", "support"}

Emails == {"a@x.io", "b@x.io", "nobody@x.io"}

\* str.lower() on the strings the model uses
Lower(s) ==
    CASE s = "Super Admin" -> "super admin"
      [] s = "Admin" -> "admin"
      [] s = ".PDF" -> ".pdf"
      [] s = ".MP3" -> ".mp3"
      [] OTHER -> s

(***************************************************************************)
(* The users table and the User object.                                    *)
(***************************************************************************)
UserRow(id, email, role, active) ==
    [id |-> id, email |-> email, name |-> "name", company_name |-> "co",
     hashed_password |-> "hash", role |-> role, is_active |-> active,
     is_verified |-> False, created_at |-> "t0", updated_at |-> "t1"]

\* two users as signup makes them (create_user: role Admin) and one whose role an
\* operator has set to Super Admin in the table, the role the handlers test for
InitUsers ==
    { UserRow(1, "a@x.io", "Admin", True),
      UserRow(2, "b@x.io", "Admin", True),
      UserRow(3, "s@x.io", "Super Admin", True) }

\* the row of the SELECT in get_user_by_email, in column order
SelectUserRow(u) ==
    << u.id, u.email, u.name, u.company_name, u.hashed_password, u.role,
       u.is_active, u.is_verified, u.created_at, u.updated_at >>

\* User.from_db_row: positional, nine fields, no role
from_db_row(row) ==
    [id |-> row[1], email |-> row[2], name |-> row[3], company_name |-> row[4],
     hashed_password |-> row[5], is_active |-> row[6], is_verified |-> row[7],
     created_at |-> row[8], updated_at |-> row[9]]

UsersByEmail(email) == {u \in users : u.email = email}

\* get_user_by_email: the User of the row with that email (at most one: UNIQUE)
get_user_by_email(email) ==
    {from_db_row(SelectUserRow(u)) : u \in UsersByEmail(email)}

\* bool(x) of a column value that reached User.is_active
PyTruth(x) == x \notin {False, None, ""}

\* get_current_user then get_current_active_user, for a token whose subject is email:
\* the set of User objects handed to the endpoint (empty: 401 or 400, no handler runs)
get_current_active_user(email) ==
    {u \in get_user_by_email(email) : PyTruth(u.is_active)}

\* the selected columns by name: the current_user the handler bodies are written for
HandlerUsers == {u \in users : u.is_active = True}

HasAttr(obj, f) == f \in DOMAIN obj

(***************************************************************************)
(* Requests.  An uploaded file is its extension (os.path.splitext of the   *)
(* filename) and the content type the client declared; None: no file.      *)
(***************************************************************************)
File(ext, ct) == [ext |-> ext, content_type |-> ct]

NoFile == File(None, None)

DocFiles ==
    { NoFile, File(".PDF", "application/pdf"), File(".exe", "application/pdf"),
      File(".pdf", "text/plain") }

VoiceFiles ==
    { NoFile, File(".MP3", "audio/mpeg"), File(".txt", "audio/mpeg"),
      File(".mp3", "video/mp4") }

allowed_extensions == {".pdf", ".docx"}

allowed_content_types ==
    { "application/pdf",
      "application/vnd.openxmlformats-officedocument.wordprocessingml.document" }

allowed_voice_extensions == {".mp3", ".wav", ".m4a", ".ogg", ".flac", ".aac"}

allowed_voice_content_types ==
    { "audio/mpeg", "audio/mp3", "audio/wav", "audio/wave", "audio/x-wav",
      "audio/mp4", "audio/m4a", "audio/ogg", "audio/flac", "audio/aac" }

\* create-agent and update-agent take no credentials: whoever sends the request is
\* nobody the handler knows
Anybody == 0

(***************************************************************************)
(* What the environment answers.  A status code, or Exc when the call      *)
(* raised (a timeout, a connection error, a client library error).         *)
(***************************************************************************)
PostOutcomes == {200, 422, Exc}

DeleteOutcomes == {200, 404, 500, Exc}

Call(name, arg) == <<name, arg>>

CallNames(calls) == [i \in 1..Len(calls) |-> calls[i][1]]

Made(calls, name) == \E i \in 1..Len(calls) : calls[i][1] = name

\* position of the first call of that name, 0 when there is none
FirstAt(calls, name) ==
    IF Made(calls, name)
    THEN CHOOSE i \in 1..Len(calls) :
            calls[i][1] = name /\ \A j \in 1..(i - 1) : calls[j][1] # name
    ELSE 0

(***************************************************************************)
(* The running request: a context threaded through the steps of a handler. *)
(* status 0: still running; anything else: the handler has answered.       *)
(***************************************************************************)
Running(c) == c.status = 0

Abort(c, status, stage) == [c EXCEPT !.status = status, !.stage = stage]

Did(c, name, arg) == [c EXCEPT !.calls = Append(@, Call(name, arg))]

\* the status a provider answered when it was not 200 (nothing when the call raised)
Refused(c, outcome) == [c EXCEPT !.refused = IF outcome = Exc THEN 0 ELSE outcome]

\* the status of an HTTPException(status_code = response.status_code): an exception
\* of requests escapes the handler instead, which the framework answers with 500
Raised(outcome) == IF outcome = Exc THEN 500 ELSE outcome

(***************************************************************************)
(* create_agent, routers/agent.py 188-467.  k numbers the identifiers the  *)
(* providers hand out to this request.                                     *)
(***************************************************************************)
CreateForms ==
    [agent_name : AgentNames, email : Emails, file : DocFiles, voice_file : VoiceFiles,
     first_message : {"hello"}, prompt : {"p1"}, llm : {"gpt"},
     business_name : {None}, agent_type : {None}, speaking_style : {None}]

\* no row: fetchone's None, and the context of a request that has not reached its INSERT
NoRow == [id |-> None]

NewContext ==
    [status |-> 0, stage |-> "start", calls |-> <<>>,
     documentation_id |-> None, file_name |-> None, file_url |-> None,
     voice_id |-> None, twilio_number |-> None, agent_id |-> None,
     phone_number_id |-> None, link_status |-> 0, row |-> NoRow, refused |-> 0]

FileName(f) == "upload" \o f.ext

\* upload_to_s3: the object's URL, or HTTPException(500)
upload_to_s3(c, name, outcome, stage) ==
    IF outcome = "ok" THEN Did(c, name, None)
    ELSE Abort(Did(c, name, None), 500, stage)

\* the answers to the three calls of the document step, up to the first that fails
DocOutcomes ==
    {[s3 |-> "fail", kb |-> 200, rag |-> 200]}
      \cup {[s3 |-> "ok", kb |-> x, rag |-> 200] : x \in PostOutcomes \ {200}}
      \cup {[s3 |-> "ok", kb |-> 200, rag |-> x] : x \in PostOutcomes}

DocOk == [s3 |-> "ok", kb |-> 200, rag |-> 200]

\* step 1, the checks: lines 207-228 (update_agent: 529-550)
validate_document(c, form) ==
    IF form.file = NoFile THEN c
    ELSE IF Lower(form.file.ext) \notin allowed_extensions THEN Abort(c, 400, "document")
    ELSE IF form.file.content_type \notin allowed_content_types
         THEN Abort(c, 400, "document")
    ELSE c

\* step 1, the uploads: lines 230-273 (update_agent: 552-595)
register_document(c, form, o, k) ==
    IF ~Running(c) \/ form.file = NoFile THEN c
    ELSE LET c1 == upload_to_s3(c, "s3.upload_doc", o.s3, "document")
             c2 == Did(c1, "el.kb.create", None)
             c3 == [Did(c2, "el.kb.rag_index", Id("doc", k))
                        EXCEPT !.documentation_id = Id("doc", k),
                               !.file_name = FileName(form.file),
                               !.file_url = "s3/user_docs/" \o form.email]
         IN  IF ~Running(c1) THEN c1
             ELSE IF o.kb # 200 THEN Abort(Refused(c2, o.kb), Raised(o.kb), "document")
             ELSE IF o.rag # 200 THEN Abort(Refused(c3, o.rag), Raised(o.rag), "document")
             ELSE c3

\* the answers to the two calls of the voice step, up to the first that fails
VoiceOutcomes ==
    {[s3 |-> "fail", clone |-> 200]} \cup {[s3 |-> "ok", clone |-> x] : x \in PostOutcomes}

VoiceOk == [s3 |-> "ok", clone |-> 200]

\* `except Exception as e: raise HTTPException(status_code=500, ...)` around the whole
\* voice block, lines 341-342 (update_agent: 665-666): whatever was raised inside it,
\* an HTTPException included, is answered with 500
voice_cloning_error(status) == 500

\* step 2, the checks: lines 275-297 (update_agent: 599-621)
validate_voice(c, form) ==
    IF ~Running(c) \/ form.voice_file = NoFile THEN c
    ELSE IF Lower(form.voice_file.ext) \notin allowed_voice_extensions
         THEN Abort(c, voice_cloning_error(400), "voice")
    ELSE IF form.voice_file.content_type \notin allowed_voice_content_types
         THEN Abort(c, voice_cloning_error(400), "voice")
    ELSE c

\* step 2, the uploads: lines 299-339 (update_agent: 623-663)
clone_voice(c, form, o, k) ==
    IF ~Running(c) \/ form.voice_file = NoFile THEN c
    ELSE LET c1 == upload_to_s3(c, "s3.upload_voice", o.s3, "voice")
             c2 == Did(c1, "el.voices.add", None)
         IN  IF ~Running(c1) THEN Abort(c1, voice_cloning_error(500), "voice")
             ELSE IF o.clone # 200
                  THEN Abort(Refused(c2, o.clone), voice_cloning_error(Raised(o.clone)),
                             "voice")
             ELSE [c2 EXCEPT !.voice_id = Id("voice", k)]

\* step 2, no voice file: the else branch of create_agent, lines 343-345
default_voice(c, form) ==
    IF Running(c) /\ form.voice_file = NoFile THEN [c EXCEPT !.voice_id = DefaultVoice]
    ELSE c

\* what Twilio can answer to a purchase: an exception, or a number nobody owns (the
\* numbers are alike: which of them Twilio offers makes no difference to any handler)
BuyOutcomes ==
    IF Numbers \ twOwned = {} THEN {None}
    ELSE {CHOOSE n \in Numbers \ twOwned : TRUE, None}

\* step 3: buy_twilio_number, lines 164-186 and 358-362
buy_twilio_number(c, o) ==
    IF ~Running(c) THEN c
    ELSE IF o = None THEN Abort(Did(c, "tw.buy", None), 500, "number")
    ELSE [Did(c, "tw.buy", o) EXCEPT !.twilio_number = o]

\* the provider hands every new agent the same id
create_provider_agent_same_id(c, o, k) ==
    IF ~Running(c) THEN c
    ELSE IF o # 200 THEN Abort(Did(c, "el.agents.create", None), Raised(o), "agent")
    ELSE [Did(c, "el.agents.create", Id("agent", 1)) EXCEPT !.agent_id = Id("agent", 1)]

\* step 4: the agent at the provider, lines 364-392 (the id is read at line 408)
create_provider_agent(c, o, k) ==
    IF ~Running(c) THEN c
    ELSE IF o # 200
         THEN Abort(Refused(Did(c, "el.agents.create", None), o), Raised(o), "agent")
    ELSE [Did(c, "el.agents.create", Id("agent", k)) EXCEPT !.agent_id = Id("agent", k)]

\* the import answers with a phone_number_id, without one, or the call raises; the
\* provider links (200) only a number it has imported
LinkOutcomes ==
    {[import |-> "raise", link |-> 422]}
      \cup {[import |-> "id", link |-> x] : x \in PostOutcomes}
      \cup {[import |-> "no id", link |-> x] : x \in PostOutcomes \ {200}}

LinkOk == [import |-> "id", link |-> 200]

\* a refused link ends the request with the provider's status
link_phone_number_fail_fast(c, o, k) ==
    IF ~Running(c) THEN c
    ELSE LET c1 == Did(c, "el.phone.import", c.twilio_number)
             pid == IF o.import = "id" THEN Id("phone", k) ELSE None
             c2 == [Did(c1, "el.phone.link", pid)
                        EXCEPT !.phone_number_id = pid, !.link_status = o.link]
         IN  IF o.import = "raise" THEN Abort(c1, 500, "link")
             ELSE IF o.link # 200 THEN Abort(c2, Raised(o.link), "link")
             ELSE c2

\* step 5: import the number and link it to the agent, lines 393-422.  Neither status
\* is a reason to stop; a response without phone_number_id leaves the id None and the
\* PATCH then addresses no number.
link_phone_number(c, o, k) ==
    IF ~Running(c) THEN c
    ELSE LET c1 == Did(c, "el.phone.import", c.twilio_number)
             pid == IF o.import = "id" THEN Id("phone", k) ELSE None
             c2 == [Did(c1, "el.phone.link", pid)
                        EXCEPT !.phone_number_id = pid, !.link_status = o.link]
         IN  IF o.import = "raise" THEN Abort(c1, 500, "link")
             ELSE IF o.link = Exc THEN Abort(c2, 500, "link")
             ELSE c2

AgentRow(id, user_id, c, form) ==
    [id |-> id, user_id |-> user_id, agent_id |-> c.agent_id,
     agent_name |-> form.agent_name, first_message |-> form.first_message,
     prompt |-> form.prompt, llm |-> form.llm,
     documentation_id |-> c.documentation_id, file_name |-> c.file_name,
     file_url |-> c.file_url, voice_id |-> c.voice_id,
     twilio_number |-> c.twilio_number, phone_number_id |-> c.phone_number_id,
     business_name |-> form.business_name, agent_type |-> form.agent_type,
     speaking_style |-> form.speaking_style]

\* the INSERT is reached although the request has been answered
persist_agent_regardless(c, form) ==
    LET found == UsersByEmail(form.email)
    IN  IF found = {} THEN (IF Running(c) THEN Abort(c, 404, "persist") ELSE c)
        ELSE LET u == CHOOSE u \in found : TRUE
             IN  IF Running(c)
                 THEN [Did(Did(c, "db.users.select", form.email),
                           "db.agents.insert", c.agent_id)
                          EXCEPT !.status = 200, !.stage = "done",
                                 !.row = AgentRow(nextRowId, u.id, c, form)]
                 ELSE [c EXCEPT !.row = AgentRow(nextRowId, u.id, c, form)]

\* an unknown email gets the row all the same, owned by nobody
persist_agent_unowned(c, form) ==
    IF ~Running(c) THEN c
    ELSE [Did(Did(c, "db.users.select", form.email), "db.agents.insert", c.agent_id)
             EXCEPT !.status = 200, !.stage = "done",
                    !.row = AgentRow(nextRowId, 0, c, form)]

\* step 6: resolve the owner by email and insert the row, lines 435-467
persist_agent(c, form) ==
    IF ~Running(c) THEN c
    ELSE LET c1 == Did(c, "db.users.select", form.email)
             found == UsersByEmail(form.email)
         IN  IF found = {} THEN Abort(c1, 404, "persist")
             ELSE LET u == CHOOSE u \in found : TRUE
                  IN  [Did(c1, "db.agents.insert", c.agent_id)
                          EXCEPT !.status = 200, !.stage = "done",
                                 !.row = AgentRow(nextRowId, u.id, c, form)]

\* no delete request is being served
Idle ==
    [pc |-> "idle", caller |-> 0, agent_id |-> None, user_id |-> 0, agent_name |-> None,
     twilio_number |-> None, voice_id |-> None, phone_number_id |-> None,
     calls |-> <<>>, warned |-> FALSE, succeeded |-> {}]

\* the optional form fields of create-agent and update-agent
OptionalFields ==
    {"first_message", "prompt", "llm", "business_name", "agent_type", "speaking_style"}

\* the optional parts a request carries: the fields with a value, the files
Supplied(form) ==
    {f \in OptionalFields : Truthy(form[f])}
      \cup (IF form.file # NoFile THEN {"file"} ELSE {})
      \cup (IF form.voice_file # NoFile THEN {"voice_file"} ELSE {})

\* the files of a request that the checks of its handler do not allow
BadFiles(form) ==
    (IF form.file # NoFile
        /\ (Lower(form.file.ext) \notin allowed_extensions
              \/ form.file.content_type \notin allowed_content_types)
     THEN {"file"} ELSE {})
      \cup (IF form.voice_file # NoFile
                /\ (Lower(form.voice_file.ext) \notin allowed_voice_extensions
                      \/ form.voice_file.content_type \notin allowed_voice_content_types)
             THEN {"voice_file"} ELSE {})

\* the answered request, as `last` keeps it
Answer(op, caller, email, agent_name, agent_id, c) ==
    [op |-> op, caller |-> caller, email |-> email, agent_name |-> agent_name,
     agent_id |-> agent_id, status |-> c.status, stage |-> c.stage, calls |-> c.calls,
     link_status |-> c.link_status, warned |-> FALSE, supplied |-> {}, bad_files |-> {},
     refused |-> c.refused]

create_agent(caller, form, c) ==
    /\ agents' = IF c.row # NoRow THEN agents \cup {c.row} ELSE agents
    /\ nextRowId' = IF c.row # NoRow THEN nextRowId + 1 ELSE nextRowId
    /\ seq' = IF c.calls # <<>> THEN seq + 1 ELSE seq
    /\ twOwned' = IF c.twilio_number # None THEN twOwned \cup {c.twilio_number}
                  ELSE twOwned
    /\ last' = [Answer("create", caller, form.email, form.agent_name, c.agent_id, c)
                   EXCEPT !.supplied = Supplied(form), !.bad_files = BadFiles(form)]
    /\ hist' = IF c.status = 200 /\ form.voice_file = NoFile
               THEN [hist EXCEPT !.plain = @ \cup {c.agent_id}] ELSE hist
    /\ UNCHANGED <<users, req, batchVars, assoc, sideVars>>

\* the environment answers a step only when the handler gets to it
Asked(c, S, ok) == IF Running(c) THEN S ELSE {ok}

CreateAgentFrom(Forms) ==
    /\ seq < MaxProvisions
    /\ req = Idle
    /\ \E form \in Forms :
         LET k == seq + 1
             c0 == validate_document(NewContext, form)
         IN
         \E od \in IF form.file = NoFile THEN {DocOk} ELSE Asked(c0, DocOutcomes, DocOk) :
           LET c1 == validate_voice(register_document(c0, form, od, k), form) IN
           \E ov \in IF form.voice_file = NoFile THEN {VoiceOk}
                     ELSE Asked(c1, VoiceOutcomes, VoiceOk) :
             LET c2 == default_voice(clone_voice(c1, form, ov, k), form) IN
             \E ob \in Asked(c2, BuyOutcomes, None) :
               LET c3 == buy_twilio_number(c2, ob) IN
               \E oa \in Asked(c3, PostOutcomes, 200) :
                 LET c4 == create_provider_agent(c3, oa, k) IN
                 \E ol \in Asked(c4, LinkOutcomes, LinkOk) :
                   LET c5 == link_phone_number(c4, ol, k) IN
                   create_agent(Anybody, form, persist_agent(c5, form))

(***************************************************************************)
(* update_agent, routers/agent.py 470-750.                                 *)
(***************************************************************************)
UpdateForms ==
    [agent_name : AgentNames, email : Emails, file : DocFiles, voice_file : VoiceFiles,
     first_message : {None, "hello again"}, prompt : {None}, llm : {None},
     business_name : {None}, agent_type : {None}, speaking_style : {None}]

\* an omitted field is written as it came in
keep_or_overwrite_nulls(new, existing) == new

\* `new if new else existing`, lines 516-526
keep_or_overwrite(new, existing) == IF Truthy(new) THEN new ELSE existing

\* the rows of the second SELECT, lines 498-503
AgentsByName(user_id, agent_name) ==
    {r \in agents : r.user_id = user_id /\ r.agent_name = agent_name}

\* lines 483-526: the owner by email, then one of the owner's rows of that name; the
\* context starts from the stored values
lookup_existing(form, existing) ==
    LET c1 == Did(NewContext, "db.users.select", form.email)
        c2 == Did(c1, "db.agents.select", form.agent_name)
    IN  IF UsersByEmail(form.email) = {} THEN Abort(c1, 404, "lookup")
        ELSE IF existing \notin agents THEN Abort(c2, 404, "lookup")
        ELSE [c2 EXCEPT !.agent_id = existing.agent_id,
                        !.documentation_id = existing.documentation_id,
                        !.file_name = existing.file_name,
                        !.file_url = existing.file_url,
                        !.voice_id = existing.voice_id,
                        !.phone_number_id = existing.phone_number_id]

\* what fetchone can return for the second SELECT: one of the rows, None when there is none
ExistingAgents(form) ==
    LET found == UNION {AgentsByName(u.id, form.agent_name) : u \in UsersByEmail(form.email)}
    IN  IF found = {} THEN {NoRow} ELSE found

\* lines 702-712: the full agent payload is sent to the provider again
patch_provider_agent(c, o) ==
    IF ~Running(c) THEN c
    ELSE IF o # 200
         THEN Abort(Refused(Did(c, "el.agents.update", c.agent_id), o), Raised(o), "agent")
    ELSE Did(c, "el.agents.update", c.agent_id)

\* the row as the UPDATE of lines 718-729 rewrites it
UpdatedRow(r, c, form) ==
    [r EXCEPT !.first_message = keep_or_overwrite(form.first_message, c.row.first_message),
              !.prompt = keep_or_overwrite(form.prompt, c.row.prompt),
              !.llm = keep_or_overwrite(form.llm, c.row.llm),
              !.agent_name = c.row.agent_name,
              !.documentation_id = c.documentation_id,
              !.file_name = c.file_name,
              !.file_url = c.file_url,
              !.voice_id = c.voice_id,
              !.phone_number_id = c.phone_number_id,
              !.business_name = keep_or_overwrite(form.business_name, c.row.business_name),
              !.agent_type = keep_or_overwrite(form.agent_type, c.row.agent_type),
              !.speaking_style =
                  keep_or_overwrite(form.speaking_style, c.row.speaking_style)]

\* lines 714-737: UPDATE ... WHERE agent_id = %s AND user_id = %s
rewrite_agent(c) ==
    IF ~Running(c) THEN c
    ELSE LET c1 == Did(c, "db.agents.update", c.agent_id)
         IN  IF {r \in agents : r.agent_id = c.agent_id /\ r.user_id = c.row.user_id} = {}
             THEN Abort(c1, 404, "persist")
             ELSE [c1 EXCEPT !.status = 200, !.stage = "done"]

\* the agents table after the UPDATE of a request that got as far as it
rewritten(c, form) ==
    IF c.status = 200
    THEN {IF r.agent_id = c.agent_id /\ r.user_id = c.row.user_id
          THEN UpdatedRow(r, c, form) ELSE r : r \in agents}
    ELSE agents

update_agent(caller, form, c) ==
    /\ agents' = rewritten(c, form)
    /\ seq' = IF Made(c.calls, "s3.upload_doc") \/ Made(c.calls, "s3.upload_voice")
              THEN seq + 1 ELSE seq
    /\ last' = [Answer("update", caller, form.email, form.agent_name, c.agent_id, c)
                   EXCEPT !.supplied = Supplied(form), !.bad_files = BadFiles(form)]
    /\ hist' = IF c.status = 200 /\ Made(c.calls, "el.voices.add")
               THEN [hist EXCEPT !.revoiced = @ \cup {c.agent_id}] ELSE hist
    /\ UNCHANGED <<users, nextRowId, twOwned, req, batchVars, assoc, sideVars>>

UpdateAgentFrom(Forms) ==
    /\ req = Idle
    /\ \E form \in Forms :
         /\ (form.file # NoFile \/ form.voice_file # NoFile) => seq < MaxProvisions
         /\ \E existing \in ExistingAgents(form) :
              LET k == seq + 1
                  found == lookup_existing(form, existing)
                  c0 == validate_document(
                            IF Running(found) THEN [found EXCEPT !.row = existing]
                            ELSE found, form)
              IN
              \E od \in IF form.file = NoFile THEN {DocOk}
                        ELSE Asked(c0, DocOutcomes, DocOk) :
                LET c1 == validate_voice(register_document(c0, form, od, k), form) IN
                \E ov \in IF form.voice_file = NoFile THEN {VoiceOk}
                          ELSE Asked(c1, VoiceOutcomes, VoiceOk) :
                  LET c2 == clone_voice(c1, form, ov, k) IN
                  \E oa \in Asked(c2, PostOutcomes, 200) :
                    update_agent(Anybody, form, rewrite_agent(patch_provider_agent(c2, oa)))

(***************************************************************************)
(* delete_agent, routers/agent.py 753-916.  The request in progress is     *)
(* `req`: the columns read from the row, the calls issued so far and       *)
(* whether a warning was printed.  Each step of the chain is one action;   *)
(* no other request is taken up while one is in progress.                  *)
(***************************************************************************)
AgentIds == {Id("agent", k) : k \in 1..MaxProvisions}

\* the rows of the SELECT the role test chooses, lines 771-784
select_for_delete(cu, agent_id) ==
    IF Lower(cu.role) = "super admin"
    THEN {r \in agents : r.agent_id = agent_id}
    ELSE {r \in agents : r.agent_id = agent_id /\ r.user_id = cu.id}

\* what fetchone returns, line 786; reading current_user.role of an object without that
\* attribute raises before the query is made
FoundForDelete(cu, agent_id) ==
    IF ~HasAttr(cu, "role") \/ select_for_delete(cu, agent_id) = {} THEN {NoRow}
    ELSE select_for_delete(cu, agent_id)

\* lines 901-907: the flags of the success response for the three upstream steps
actions_completed(r) ==
    [elevenlabs_agent_deleted |-> TRUE, elevenlabs_phone_removed |-> TRUE,
     twilio_number_released |-> TRUE]

\* succeeded: the upstream steps of the request that the provider carried out
DeleteAnswer(r, status, stage) ==
    [op |-> "delete", caller |-> r.caller, email |-> None, agent_name |-> r.agent_name,
     agent_id |-> r.agent_id, status |-> status, stage |-> stage, calls |-> r.calls,
     link_status |-> 0, warned |-> r.warned, supplied |-> {}, bad_files |-> {},
     refused |-> 0, succeeded |-> r.succeeded, actions_completed |-> actions_completed(r)]

\* lines 765-793: the request as it stands once the row has been looked up
begin_delete(cu, agent_id, row) ==
    LET r0 == [Idle EXCEPT !.caller = cu.id, !.agent_id = agent_id]
        r1 == [r0 EXCEPT !.calls = <<Call("db.agents.select", agent_id)>>]
    IN  IF ~HasAttr(cu, "role") THEN [r0 EXCEPT !.pc = "raised"]
        ELSE IF row \notin agents THEN [r1 EXCEPT !.pc = "not found"]
        ELSE [r1 EXCEPT !.pc = "agent", !.user_id = row.user_id,
                        !.agent_name = row.agent_name,
                        !.twilio_number = row.twilio_number,
                        !.voice_id = row.voice_id,
                        !.phone_number_id = row.phone_number_id]

\* lines 787-791 and 910-916: the answer of a request that ends at the lookup
delete_refused(r) ==
    IF r.pc = "raised" THEN DeleteAnswer([r EXCEPT !.pc = "idle"], 500, "auth")
    ELSE DeleteAnswer([r EXCEPT !.pc = "idle"], 404, "lookup")

DeleteAgentAs(Callers) ==
    /\ req = Idle
    /\ \E cu \in Callers, agent_id \in AgentIds :
         \E row \in FoundForDelete(cu, agent_id) :
           LET r == begin_delete(cu, agent_id, row) IN
           /\ req' = IF r.pc = "agent" THEN r ELSE Idle
           /\ last' = IF r.pc = "agent" THEN last ELSE delete_refused(r)
    /\ UNCHANGED <<users, agents, nextRowId, seq, twOwned, hist, batchVars, assoc, sideVars>>

\* the statuses a cleanup step takes without a warning, lines 803 and 821
delete_tolerated == {200, 204, 404}

\* a failed provider-agent delete abandons the rest of the cleanup
delete_provider_agent_abandons(r, o) ==
    [r EXCEPT !.pc = IF o \in delete_tolerated THEN "voice" ELSE "row",
              !.calls = Append(@, Call("el.agents.delete", r.agent_id)),
              !.warned = @ \/ o \notin delete_tolerated]

\* step 1, lines 795-810
delete_provider_agent(r, o) ==
    [r EXCEPT !.pc = "voice",
              !.calls = Append(@, Call("el.agents.delete", r.agent_id)),
              !.warned = @ \/ o \notin delete_tolerated,
              !.succeeded = IF o \in {200, 204} THEN @ \cup {"agent"} ELSE @]

DeleteProviderAgent ==
    /\ req.pc = "agent"
    /\ \E o \in DeleteOutcomes : req' = delete_provider_agent(req, o)
    /\ UNCHANGED <<users, agents, nextRowId, seq, twOwned, hist, last, batchVars, assoc, sideVars>>

\* the default voice is deleted like a cloned one
has_cloned_voice_any(r) == Truthy(r.voice_id)

\* line 813
has_cloned_voice(r) == Truthy(r.voice_id) /\ r.voice_id # DefaultVoice

\* step 2, lines 812-825
delete_voice(r, o) ==
    IF has_cloned_voice(r)
    THEN [r EXCEPT !.pc = "phone",
                   !.calls = Append(@, Call("el.voices.delete", r.voice_id)),
                   !.warned = @ \/ o \notin delete_tolerated]
    ELSE [r EXCEPT !.pc = "phone"]

DeleteVoice ==
    /\ req.pc = "voice"
    /\ \E o \in IF has_cloned_voice(req) THEN DeleteOutcomes ELSE {200} :
         req' = delete_voice(req, o)
    /\ UNCHANGED <<users, agents, nextRowId, seq, twOwned, hist, last, batchVars, assoc, sideVars>>

\* step 3, lines 827-847
delete_phone_number(r, o) ==
    IF Truthy(r.phone_number_id)
    THEN [r EXCEPT !.pc = "number",
                   !.calls = Append(@, Call("el.phone.delete", r.phone_number_id)),
                   !.warned = @ \/ o \notin {200, 204},
                   !.succeeded = IF o \in {200, 204} THEN @ \cup {"phone"} ELSE @]
    ELSE [r EXCEPT !.pc = "number", !.warned = TRUE]

\* step 3: the provider holds nothing for a number it has deleted
removed_number(r, o) ==
    IF Truthy(r.phone_number_id) /\ o \in {200, 204}
    THEN {a \in assoc : a[1] # r.phone_number_id}
    ELSE assoc

DeletePhoneNumber ==
    /\ req.pc = "phone"
    /\ \E o \in IF Truthy(req.phone_number_id) THEN DeleteOutcomes ELSE {200} :
         /\ req' = delete_phone_number(req, o)
         /\ assoc' = removed_number(req, o)
    /\ UNCHANGED <<users, agents, nextRowId, seq, twOwned, hist, last, batchVars, sideVars>>

\* what Twilio does in step 4: the listing raises, the release raises, or both work
ReleaseOutcomes == {"list raises", "release raises", "released"}

\* step 4, lines 849-873: the request after it
release_twilio_number(r, o) ==
    LET listed == [r EXCEPT !.pc = "row", !.calls = Append(@, Call("tw.list", None))]
    IN  IF o = "list raises" THEN [listed EXCEPT !.warned = TRUE]
        ELSE IF r.twilio_number \notin twOwned THEN [listed EXCEPT !.warned = TRUE]
        ELSE [listed EXCEPT !.calls = Append(@, Call("tw.release", r.twilio_number)),
                            !.warned = @ \/ o # "released",
                            !.succeeded = IF o = "released" THEN @ \cup {"number"} ELSE @]

\* Twilio reports the release done and keeps the number in the account
released_numbers_kept(r, o) == twOwned

\* step 4: the numbers of the account after it
released_numbers(r, o) ==
    IF o = "released" THEN twOwned \ {r.twilio_number} ELSE twOwned

ReleaseTwilioNumber ==
    /\ req.pc = "number"
    /\ \E o \in ReleaseOutcomes :
         /\ req' = release_twilio_number(req, o)
         /\ twOwned' = released_numbers(req, o)
    /\ UNCHANGED <<users, agents, nextRowId, seq, hist, last, batchVars, assoc, sideVars>>

\* step 5, lines 875-890: DELETE FROM agents WHERE agent_id = %s
delete_local_row(r) == {a \in agents : a.agent_id # r.agent_id}

DeleteLocalRow ==
    /\ req.pc = "row"
    /\ LET r == [req EXCEPT !.pc = "idle",
                            !.calls = Append(@, Call("db.agents.delete", req.agent_id))]
           rowcount == Cardinality(agents \ delete_local_row(req))
       IN  /\ agents' = delete_local_row(req)
           /\ last' = IF rowcount = 0 THEN DeleteAnswer(r, 404, "row")
                      ELSE DeleteAnswer(r, 200, "done")
           /\ hist' = IF rowcount = 0 THEN hist
                      ELSE [hist EXCEPT !.deleted = @ \cup {req.agent_id}]
    /\ req' = Idle
    /\ UNCHANGED <<users, nextRowId, seq, twOwned, batchVars, assoc, sideVars>>

(***************************************************************************)
(* pause_twilio_number and resume_twilio_number, routers/agent.py 919-1071.*)
(***************************************************************************)
PatchOutcomes == {200, 404, Exc}

\* the rows of the SELECT the role test chooses, lines 935-946 and 1021-1032
select_for_toggle(cu, agent_id) ==
    IF Lower(cu.role) = "super admin"
    THEN {r \in agents : r.agent_id = agent_id}
    ELSE {r \in agents : r.agent_id = agent_id /\ r.user_id = cu.id}

\* what fetchone returns, lines 948 and 1034
FoundForToggle(cu, agent_id) ==
    IF ~HasAttr(cu, "role") \/ select_for_toggle(cu, agent_id) = {} THEN {NoRow}
    ELSE select_for_toggle(cu, agent_id)

ToggleAnswer(op, cu, agent_id, status, stage, calls) ==
    [op |-> op, caller |-> cu.id, email |-> None, agent_name |-> None,
     agent_id |-> agent_id, status |-> status, stage |-> stage, calls |-> calls,
     link_status |-> 0, warned |-> FALSE, supplied |-> {}, bad_files |-> {},
     refused |-> 0]

\* the provider takes a PATCH only for a number it knows
Patched(row) ==
    IF row \in agents /\ Truthy(row.phone_number_id) THEN PatchOutcomes
    ELSE PatchOutcomes \ {200}

\* lines 929-1002: the answer of a pause request
pause_twilio_number(cu, agent_id, row, o) ==
    LET looked == <<Call("db.agents.select", agent_id)>>
        patched == Append(looked, Call("el.phone.patch", None))
    IN  IF ~HasAttr(cu, "role") THEN ToggleAnswer("pause", cu, agent_id, 500, "auth", <<>>)
        ELSE IF row \notin agents
        THEN ToggleAnswer("pause", cu, agent_id, 404, "lookup", looked)
        ELSE IF ~Truthy(row.phone_number_id)
        THEN ToggleAnswer("pause", cu, agent_id, 400, "number", looked)
        ELSE [ToggleAnswer("pause", cu, agent_id, Raised(o), "patch", patched)
                 EXCEPT !.link_status = o]

\* a resume request whose not-found passes through the handler
resume_twilio_number_reraises(cu, agent_id, row, o) ==
    LET looked == <<Call("db.agents.select", agent_id)>>
        patched == Append(looked, Call("el.phone.patch", agent_id))
    IN  IF ~HasAttr(cu, "role") THEN ToggleAnswer("resume", cu, agent_id, 500, "auth", <<>>)
        ELSE IF row \notin agents
        THEN ToggleAnswer("resume", cu, agent_id, 404, "lookup", looked)
        ELSE IF o = Exc
        THEN [ToggleAnswer("resume", cu, agent_id, 500, "patch", patched)
                 EXCEPT !.link_status = o]
        ELSE [ToggleAnswer("resume", cu, agent_id, 200, "patch", patched)
                 EXCEPT !.link_status = o]

\* lines 1015-1071: the answer of a resume request.  The handler has one except clause,
\* for Exception, so its own 404 comes out as 500; what the provider answers to the PATCH
\* is printed and the request is answered with success
resume_twilio_number(cu, agent_id, row, o) ==
    LET looked == <<Call("db.agents.select", agent_id)>>
        patched == Append(looked, Call("el.phone.patch", agent_id))
    IN  IF ~HasAttr(cu, "role") THEN ToggleAnswer("resume", cu, agent_id, 500, "auth", <<>>)
        ELSE IF row \notin agents
        THEN ToggleAnswer("resume", cu, agent_id, 500, "lookup", looked)
        ELSE IF o = Exc
        THEN [ToggleAnswer("resume", cu, agent_id, 500, "patch", patched)
                 EXCEPT !.link_status = o]
        ELSE [ToggleAnswer("resume", cu, agent_id, 200, "patch", patched)
                 EXCEPT !.link_status = o]

\* a provider on which the PATCH has no effect
patch_number_ignored(answer, row, agent, o) == assoc

\* the association after a PATCH of the number to agent (None: to no agent) that the
\* provider answered with o
patch_number(answer, row, agent, o) ==
    IF answer.stage = "patch" /\ o = 200
    THEN {a \in assoc : a[1] # row.phone_number_id} \cup {<<row.phone_number_id, agent>>}
    ELSE assoc

toggle_frame ==
    UNCHANGED <<users, agents, nextRowId, seq, twOwned, hist, req, batchVars, sideVars>>

PauseTwilioNumberAs(Callers) ==
    /\ req = Idle
    /\ \E cu \in Callers, agent_id \in AgentIds :
         \E row \in FoundForToggle(cu, agent_id) :
           \E o \in Patched(row) :
             /\ last' = pause_twilio_number(cu, agent_id, row, o)
             /\ assoc' = patch_number(pause_twilio_number(cu, agent_id, row, o), row, None, o)
    /\ toggle_frame

ResumeTwilioNumberAs(Callers) ==
    /\ req = Idle
    /\ \E cu \in Callers, agent_id \in AgentIds :
         \E row \in FoundForToggle(cu, agent_id) :
           \E o \in Patched(row) :
             /\ last' = resume_twilio_number(cu, agent_id, row, o)
             /\ assoc' = patch_number(resume_twilio_number(cu, agent_id, row, o), row,
                                      agent_id, o)
    /\ toggle_frame

(***************************************************************************)
(* Batch calls, routers/agent.py 1096-1976.  A cell of the uploaded sheet  *)
(* and a recipient are sequences of characters; a scheduled_time string is *)
(* one of a few texts whose parse is known.                                *)
(***************************************************************************)
BatchNames == {"promo"}

\* the call_name of a status, cancel or retry request
LookupNames == BatchNames \cup {"other"}

BatchFiles ==
    { File(".csv", "text/csv"), File(".xlsx", "application/vnd.ms-excel"),
      File(".txt", "text/csv"), File(".csv", "text/plain") }

\* the content types taken for each extension, lines 1146-1152
batch_content_types(ext) ==
    IF ext = ".csv" THEN {"text/csv", "application/csv", "application/vnd.ms-excel"}
    ELSE {"application/vnd.openxmlformats-officedocument.spreadsheetml.sheet",
          "application/vnd.ms-excel"}

Digit == {"0", "1", "2", "3", "4", "5", "6", "7", "8", "9"}

isdigit(ch) == ch \in Digit

\* str.lower() and str.isspace() on a character
lower(ch) ==
    CASE ch = "N" -> "n"
      [] ch = "A" -> "a"
      [] ch = "O" -> "o"
      [] ch = "E" -> "e"
      [] OTHER -> ch

isspace(ch) == ch = " "

RECURSIVE lstrip(_)
lstrip(s) == IF s # <<>> /\ isspace(Head(s)) THEN lstrip(Tail(s)) ELSE s

RECURSIVE rstrip(_)
rstrip(s) ==
    IF s # <<>> /\ isspace(s[Len(s)]) THEN rstrip(SubSeq(s, 1, Len(s) - 1)) ELSE s

strip(s) == rstrip(lstrip(s))

lowered(s) == [i \in 1..Len(s) |-> lower(s[i])]

\* the cells of a phone column: empty, a NaN, seven digits, ten digits, ten digits that
\* begin with 1, eleven digits, and the twelve digits of a number abroad
Blank == <<>>

NotANumber == <<" ", "N", "a", "N">>

SevenDigits == <<"5", "5", "5", "-", "0", "1", "0", "0">>

TenDigits == <<"(", "2", "0", "2", ")", " ", "5", "5", "5", "-", "0", "1", "2", "3">>

TenDigitsFromOne == <<"1", "2", "3", "4", "5", "6", "7", "8", "9", "0">>

ElevenDigits == <<"1", "2", "0", "2", "5", "5", "5", "0", "1", "2", "3">>

Abroad == <<"+", "4", "4", " ", "2", "0", " ", "7", "9", "4", "6", " ", "0", "9", "5", "8">>

PhoneCells ==
    {Blank, NotANumber, SevenDigits, TenDigits, TenDigitsFromOne, ElevenDigits, Abroad}

\* lines 1245-1246: the cell as a stripped string, and whether it is taken as a number
phone_number(cell) == strip(cell)

is_blank(p) == p = <<>> \/ lowered(p) \in {<<"n", "a", "n">>, <<"n", "o", "n", "e">>}

\* line 1248
cleaned_phone(p) == SelectSeq(p, isdigit)

\* lines 1251-1252: ten digits that do not begin with 1 get the country code
with_country_code(d) == IF Head(d) # "1" /\ Len(d) = 10 THEN <<"1">> \o d ELSE d

\* lines 1245-1255: what one cell adds to phone_numbers
recipient_of(cell) ==
    LET p == phone_number(cell)
        d == cleaned_phone(p)
    IN  IF is_blank(p) THEN <<>>
        ELSE IF Len(d) >= 10 THEN << <<"+">> \o with_country_code(d) >>
        ELSE <<>>

\* lines 1233-1255: phone_numbers of the rows, in the order of the rows
RECURSIVE phone_numbers(_)
phone_numbers(rows) ==
    IF rows = <<>> THEN <<>> ELSE recipient_of(Head(rows)) \o phone_numbers(Tail(rows))

\* a sheet has one column of that name; its rows are the cells of the column
SheetColumn == "phone"

MaxRows == 2

Sheets == UNION {[1..n -> PhoneCells] : n \in 0..MaxRows}

(***************************************************************************)
(* scheduled_time, lines 34-106 and 1268-1303.                             *)
(***************************************************************************)
ValueError == 0 - 2

\* the 'run immediately' value, lines 1268 and 1303
Sentinel == 42

\* 2030-01-01 10:00 UTC and the epoch, written with their offset; a text no parser takes
AtTen == "2030-01-01T10:00:00+00:00"

AtEpoch == "1970-01-01T00:00:00+00:00"

ScheduledTimes == {None, "", AtTen, AtEpoch, "soon"}

\* int(dt.timestamp()) of a datetime that carries its offset
timestamp(s) ==
    CASE s = AtTen -> 1893492000
      [] s = AtEpoch -> 0
      [] OTHER -> ValueError

\* `mark in datetime_str` (and count("-") == 2 for "--") on the texts above
Has(s, mark) ==
    /\ s \in {AtTen, AtEpoch}
    /\ mark \in {"T", ":", "-"}

\* lines 52-61: dateutil's parser, whose failure is swallowed
date_parser_parse(s) == timestamp(s)

\* line 67: datetime.fromisoformat of the text with a space for the T
fromisoformat(s) == timestamp(s)

\* datetime.strptime of the text with any of the patterns of lines 76-100: none of
\* them takes an offset, a seconds field or a word
strptime(s) == ValueError

\* lines 63-103: the fallbacks after dateutil, in their order
manual_parse(s) ==
    IF Has(s, "T") THEN fromisoformat(s)
    ELSE IF Has(s, " PM") \/ Has(s, " AM") THEN strptime(s)
    ELSE IF Has(s, ":") /\ Has(s, "-") /\ strptime(s) # ValueError THEN strptime(s)
    ELSE IF Has(s, "--") /\ ~Has(s, ":") THEN strptime(s)
    ELSE ValueError

\* lines 48-106: the Unix time of the text, or ValueError
parse_human_datetime(s) ==
    IF date_parser_parse(s) # ValueError THEN date_parser_parse(s) ELSE manual_parse(s)

\* lines 1268-1289: final_scheduled_time_unix, or ValueError (answered with 400)
final_scheduled_time_unix(scheduled_time) ==
    IF Truthy(scheduled_time) THEN parse_human_datetime(scheduled_time) ELSE Sentinel

\* lines 1300-1303: the scheduled_time_unix of the payload
payload_scheduled_time_unix(final) == IF final # 0 THEN final ELSE Sentinel

(***************************************************************************)
(* batch_calling, lines 1096-1369.                                         *)
(***************************************************************************)
\* the submissions a run of SpecBatch takes, and the jobs a run of SpecJobs follows
MaxSubmissions == 1

MaxJobs == 1

BatchForm(agent_name, csv_file, phone_column, rows, scheduled_time) ==
    [agent_name |-> agent_name, call_name |-> "promo", csv_file |-> csv_file,
     phone_column |-> phone_column, rows |-> rows, scheduled_time |-> scheduled_time]

CsvFile == File(".csv", "text/csv")

\* a sheet of one number sent now for every agent name, file and column; every sheet,
\* and every scheduled_time, for an agent that is there
BatchForms ==
    {BatchForm(n, f, col, <<ElevenDigits>>, None) :
        n \in AgentNames, f \in BatchFiles, col \in {SheetColumn, "mobile"}}
    \cup {BatchForm("sales", CsvFile, SheetColumn, rows, None) : rows \in Sheets}
    \cup {BatchForm("sales", CsvFile, SheetColumn, <<ElevenDigits>>, t) : t \in ScheduledTimes}

\* a status no request has obtained
NotAsked == "not asked"

\* the answered batch request, as `reply` keeps it: for a submission the rows and the
\* scheduled_time it was given, the recipients and the scheduled_time_unix of the payload
\* and the total_numbers of the inserted row; for a status, cancel or retry request the
\* job it resolved, the local status it found (cached) and left (stored), the status the
\* provider held (live) and the one the handler obtained (reported)
NoReply ==
    [op |-> "none", status |-> 0, calls |-> <<>>, rows |-> <<>>, scheduled_time |-> None,
     recipients |-> <<>>, payload_time |-> 0, total_numbers |-> 0, job |-> None,
     cached |-> NotAsked, stored |-> NotAsked, live |-> NotAsked, reported |-> NotAsked]

\* the rows of the SELECT the role test chooses, lines 1165-1176
select_agent_for_batch(cu, agent_name) ==
    IF Lower(cu.role) = "super admin"
    THEN {r \in agents : r.agent_name = agent_name}
    ELSE {r \in agents : r.agent_name = agent_name /\ r.user_id = cu.id}

\* what fetchone returns, line 1178
FoundForBatch(cu, agent_name) ==
    IF select_agent_for_batch(cu, agent_name) = {} THEN {NoRow}
    ELSE select_agent_for_batch(cu, agent_name)

batch_extensions == {".csv", ".xlsx"}

\* lines 1130-1320: the answer of the handler up to the submission; submit is the
\* provider's answer to it
batch_answer(form, agent, submit) ==
    LET r0 == [NoReply EXCEPT !.op = "batch", !.rows = form.rows,
                              !.scheduled_time = form.scheduled_time]
        r1 == [r0 EXCEPT !.calls = <<Call("db.agents.select", form.agent_name)>>]
        numbers == phone_numbers(form.rows)
        final == final_scheduled_time_unix(form.scheduled_time)
        r2 == [r1 EXCEPT !.calls = Append(@, Call("submit", form.call_name)), !.recipients = numbers,
                         !.payload_time = payload_scheduled_time_unix(final)]
    IN  IF form.csv_file.ext \notin batch_extensions THEN [r0 EXCEPT !.status = 400]
        ELSE IF form.csv_file.content_type \notin batch_content_types(form.csv_file.ext)
        THEN [r0 EXCEPT !.status = 400]
        ELSE IF agent \notin agents THEN [r1 EXCEPT !.status = 404]
        ELSE IF ~Truthy(agent.phone_number_id) THEN [r1 EXCEPT !.status = 400]
        ELSE IF form.rows # <<>> /\ form.phone_column # SheetColumn
        THEN [r1 EXCEPT !.status = 400]
        ELSE IF numbers = <<>> THEN [r1 EXCEPT !.status = 400]
        ELSE IF final = ValueError THEN [r1 EXCEPT !.status = 400]
        ELSE IF submit # 200 THEN [r2 EXCEPT !.status = Raised(submit)]
        ELSE [r2 EXCEPT !.status = 200, !.calls = Append(@, Call("db.batch_calls.insert", form.call_name)),
                        !.job = Id("batch_", Cardinality(DOMAIN jobs) + 1)]

\* a row that counts the rows of the sheet instead of the recipients
BatchRow_counts_rows(form, agent, r) ==
    [id |-> Cardinality(batch_calls) + 1, user_id |-> agent.user_id,
     agent_id |-> agent.agent_id, batch_job_id |-> r.job, call_name |-> form.call_name,
     total_numbers |-> Len(form.rows),
     scheduled_time_unix |-> final_scheduled_time_unix(form.scheduled_time),
     status |-> "submitted"]

\* lines 1333-1342: the inserted row; id stands for created_at
BatchRow(form, agent, r) ==
    [id |-> Cardinality(batch_calls) + 1, user_id |-> agent.user_id,
     agent_id |-> agent.agent_id, batch_job_id |-> r.job, call_name |-> form.call_name,
     total_numbers |-> Len(r.recipients),
     scheduled_time_unix |-> final_scheduled_time_unix(form.scheduled_time),
     status |-> "submitted"]

batch_calling(form, agent, submit) ==
    LET r == batch_answer(form, agent, submit) IN
    /\ batch_calls' = IF r.status = 200 THEN batch_calls \cup {BatchRow(form, agent, r)}
                      ELSE batch_calls
    /\ jobs' = IF r.status = 200 THEN (r.job :> "pending") @@ jobs ELSE jobs
    /\ reply' = IF r.status = 200
                THEN [r EXCEPT !.total_numbers = BatchRow(form, agent, r).total_numbers]
                ELSE r
    /\ UNCHANGED <<users, agents, nextRowId, seq, twOwned, hist, req, last, assoc,
                   sideVars>>

BatchCallingFrom(Forms, max) ==
    /\ req = Idle
    /\ Cardinality(batch_calls) < max
    /\ \E cu \in HandlerUsers, form \in Forms :
         \E agent \in FoundForBatch(cu, form.agent_name), submit \in PostOutcomes :
            /\ submit # 200 => Made(batch_answer(form, agent, submit).calls, "submit")
            /\ batch_calling(form, agent, submit)

(***************************************************************************)
(* The provider's jobs.  A job holds one of the statuses the handlers name *)
(* (lines 1668 and 1817), one they do not name, or no status at all.       *)
(***************************************************************************)
InProgress == {"in_progress", "pending", "submitted", "retrying"}

Terminal == {"completed", "cancelled", "failed"}

ProviderStatuses == InProgress \cup Terminal \cup {"paused", None}

\* the provider moves a job on, whatever the service does
ProviderProgress ==
    /\ \E j \in DOMAIN jobs :
         \E s \in ProviderStatuses \ {jobs[j]} : jobs' = [jobs EXCEPT ![j] = s]
    /\ UNCHANGED <<users, agents, nextRowId, seq, twOwned, hist, req, last,
                   batch_calls, reply, assoc, sideVars>>

StatusOutcomes == {200, 404, Exc}

\* batch_status.get("status", "unknown"), lines 1795 and 1943
get_status(data) == IF data = None THEN "unknown" ELSE data

\* ORDER BY created_at DESC LIMIT 1, then fetchone
latest(rows) ==
    IF rows = {} THEN NoRow ELSE CHOOSE r \in rows : \A q \in rows : q.id <= r.id

\* lines 1642-1656 and 1897-1916: the row a cancel or a status request resolves
select_batch(cu, call_name) ==
    IF Lower(cu.role) = "super admin"
    THEN latest({b \in batch_calls : b.call_name = call_name})
    ELSE latest({b \in batch_calls : b.call_name = call_name /\ b.user_id = cu.id})

\* JOIN agents a ON bc.agent_id = a.agent_id, lines 1749-1751 and 1758-1760
joined == {b \in batch_calls : \E a \in agents : a.agent_id = b.agent_id}

\* lines 1746-1765: the row a retry request resolves
select_batch_for_retry(cu, call_name) ==
    IF Lower(cu.role) = "super admin"
    THEN latest({b \in joined : b.call_name = call_name})
    ELSE latest({b \in joined : b.call_name = call_name /\ b.user_id = cu.id})

\* UPDATE batch_calls SET status = %s WHERE batch_job_id = %s
set_status(job, s) ==
    {IF b.batch_job_id = job THEN [b EXCEPT !.status = s] ELSE b : b \in batch_calls}

\* the request once its row is resolved
Resolved(op, row) ==
    [NoReply EXCEPT !.op = op, !.calls = <<Call("db.batch_calls.select", row.call_name)>>,
                    !.job = row.batch_job_id, !.cached = row.status,
                    !.stored = row.status, !.live = jobs[row.batch_job_id]]

NotFound(op, call_name) ==
    [NoReply EXCEPT !.op = op, !.calls = <<Call("db.batch_calls.select", call_name)>>,
                    !.status = 404]

\* a refresh that reads the provider's status and leaves the local status as it was
refresh_status_readonly(r, got) ==
    LET r1 == [r EXCEPT !.calls = Append(@, Call("get status", r.job))]
    IN  IF got # 200 THEN [r1 EXCEPT !.status = Raised(got)]
        ELSE [r1 EXCEPT !.reported = get_status(r.live)]

\* lines 1926-1953 and 1779-1808: the provider is asked for the job, and the local
\* status is rewritten when the one it reports differs
refresh_status(r, got) ==
    LET r1 == [r EXCEPT !.calls = Append(@, Call("get status", r.job))]
        s == get_status(r.live)
    IN  IF got # 200 THEN [r1 EXCEPT !.status = Raised(got)]
        ELSE IF s # r.cached
        THEN [r1 EXCEPT !.reported = s, !.stored = s,
                        !.calls = Append(@, Call("db.batch_calls.update", r.job))]
        ELSE [r1 EXCEPT !.reported = s]

batch_frame ==
    UNCHANGED <<users, agents, nextRowId, seq, twOwned, hist, req, last, assoc, sideVars>>

\* what a request that resolved a row leaves in the table
stored_status(r) ==
    IF r.stored = NotAsked THEN batch_calls ELSE set_status(r.job, r.stored)

(***************************************************************************)
(* get_batch_calling_status_by_name, lines 1876-1976.                      *)
(***************************************************************************)
status_by_name(call_name, row, got) ==
    IF row \notin batch_calls THEN NotFound("status", call_name)
    ELSE LET r == refresh_status(Resolved("status", row), got)
         IN  IF r.status # 0 THEN r ELSE [r EXCEPT !.status = 200]

GetBatchCallingStatusByName ==
    /\ req = Idle
    /\ \E cu \in HandlerUsers, call_name \in LookupNames, got \in StatusOutcomes :
         LET r == status_by_name(call_name, select_batch(cu, call_name), got) IN
         /\ reply' = r
         /\ batch_calls' = stored_status(r)
         /\ jobs' = jobs
    /\ batch_frame

(***************************************************************************)
(* cancel_batch_calling, lines 1621-1721.                                  *)
(***************************************************************************)
CancelOutcomes == {200, 204, 400, Exc}

\* what the request leaves at the provider: the job a 2xx answer acted on
acted(r, s) == IF r.status = 200 THEN [jobs EXCEPT ![r.job] = s] ELSE jobs

cancel_batch_calling(call_name, row, answer) ==
    IF row \notin batch_calls THEN NotFound("cancel", call_name)
    ELSE LET r == Resolved("cancel", row)
             r1 == [r EXCEPT !.calls = Append(@, Call("cancel", r.job))]
         IN  IF r.cached \in {"completed", "cancelled", "failed"}
             THEN [r EXCEPT !.status = 400]
             ELSE IF answer \notin {200, 204} THEN [r1 EXCEPT !.status = Raised(answer)]
             ELSE [r1 EXCEPT !.status = 200, !.stored = "cancelled",
                             !.calls = Append(@, Call("db.batch_calls.update", r.job))]

CancelBatchCalling ==
    /\ req = Idle
    /\ \E cu \in HandlerUsers, call_name \in LookupNames, answer \in CancelOutcomes :
         LET r == cancel_batch_calling(call_name, select_batch(cu, call_name), answer) IN
         /\ reply' = r
         /\ batch_calls' = stored_status(r)
         /\ jobs' = acted(r, "cancelled")
    /\ batch_frame

(***************************************************************************)
(* retry_batch_calling, lines 1724-1873.                                   *)
(***************************************************************************)
RetryOutcomes == {200, 201, 400, Exc}

\* a refusal list without the jobs that are still queued
not_retryable_running == {"in_progress", "retrying"}

\* the live statuses a retry is refused for, line 1817
not_retryable == {"in_progress", "pending", "submitted", "retrying"}

retry_batch_calling(call_name, row, got, answer) ==
    IF row \notin batch_calls THEN NotFound("retry", call_name)
    ELSE LET r == refresh_status(Resolved("retry", row), got)
             r1 == [r EXCEPT !.calls = Append(@, Call("retry", r.job))]
         IN  IF r.status # 0 THEN r
             ELSE IF r.reported \in not_retryable THEN [r EXCEPT !.status = 400]
             ELSE IF answer \notin {200, 201} THEN [r1 EXCEPT !.status = Raised(answer)]
             ELSE [r1 EXCEPT !.status = 200, !.stored = "retrying",
                             !.calls = Append(@, Call("db.batch_calls.update", r.job))]

RetryBatchCalling ==
    /\ req = Idle
    /\ \E cu \in HandlerUsers, call_name \in LookupNames, got \in StatusOutcomes,
          answer \in RetryOutcomes :
         LET r == retry_batch_calling(call_name, select_batch_for_retry(cu, call_name),
                                      got, answer) IN
         /\ reply' = r
         /\ batch_calls' = stored_status(r)
         /\ jobs' = acted(r, "retrying")
    /\ batch_frame

(***************************************************************************)
(* The initial state: the tables as the deployment has them, no agent yet. *)
(***************************************************************************)
NoAnswer == Answer("none", 0, None, None, None, NewContext)

(***************************************************************************)
(* Authentication, auth.py and routers/user_signup.py.  SECRET_KEY and     *)
(* ALGORITHM are read from the environment once, when auth.py is imported. *)
(* A bearer token is what it was signed with and the subject it carries.   *)
(* login and the authenticated endpoints are one action each.  signup is   *)
(* two statements on two connections (the SELECT of get_user_by_email, the *)
(* INSERT of create_user) with nothing that holds other requests off in    *)
(* between, so where more than one worker process serves the application   *)
(* the statements of two requests interleave: signup is one action per     *)
(* statement, per worker.                                                  *)
(***************************************************************************)
MaxWorkers == 2

Workers == 1..MaxWorkers

IdleWorker == [op |-> "none", pc |-> "idle"]

NoWorkers == [w \in Workers |-> IdleWorker]

\* SECRET_KEY and ALGORITHM of the environment, auth.py 16-17
Configured == [SECRET_KEY |-> "secret", ALGORITHM |-> "HS256"]

\* os.getenv gives None for a variable that is not set
Configs == [SECRET_KEY : {"secret", None}, ALGORITHM : {"HS256", None}]

\* no request has reached the authentication layer
NoAuth == [op |-> "none", email |-> None, status |-> 0, stage |-> "none"]

AuthAnswer(op, email, status, stage) ==
    [op |-> op, email |-> email, status |-> status, stage |-> stage]

\* a user whose is_active an operator has set to false in the table
InactiveUser == UserRow(4, "i@x.io", "Admin", False)

AuthUsers == InitUsers \cup {InactiveUser}

Passwords == {"pw", "wrong"}

\* get_password_hash, auth.py 26-27; the rows of the model hold the hash of "pw"
get_password_hash(password) == IF password = "pw" THEN "hash" ELSE "hash of " \o password

\* verify_password, auth.py 23-24
verify_password(plain_password, hashed_password) ==
    get_password_hash(plain_password) = hashed_password

\* authenticate_user, auth.py 52-58: the users it returns (none: False)
authenticate_user(email, password) ==
    {u \in get_user_by_email(email) : verify_password(password, u.hashed_password)}

\* a token signed with key under alg whose payload has the subject sub (None: no "sub")
Token(sub, key, alg) == [sub |-> sub, key |-> key, alg |-> alg]

\* the tokens a client may send: signed with the deployment's settings or with another
\* key, for a registered, an inactive or an unknown subject or with none
Tokens ==
    {Token(sub, key, "HS256") :
        sub \in {"a@x.io", "i@x.io", "nobody@x.io", None}, key \in {"secret", "forged"}}

\* a login whose 500 for missing settings comes out as the 401 of a failed login
create_access_token_unauthorized(sub) ==
    IF PyTruth(config.SECRET_KEY) /\ PyTruth(config.ALGORITHM)
    THEN [status |-> 200, token |-> Token(sub, config.SECRET_KEY, config.ALGORITHM)]
    ELSE [status |-> 401, token |-> None]

\* create_access_token, auth.py 60-70
create_access_token(sub) ==
    IF PyTruth(config.SECRET_KEY) /\ PyTruth(config.ALGORITHM)
    THEN [status |-> 200, token |-> Token(sub, config.SECRET_KEY, config.ALGORITHM)]
    ELSE [status |-> 500, token |-> None]

\* login, user_signup.py 50-67.  The handler returns access_token and token_type, and
\* its response_model (schemas.Token) requires role as well: the response of a login
\* that made a token fails validation
login(email, password) ==
    IF authenticate_user(email, password) = {}
    THEN AuthAnswer("login", email, 401, "credentials")
    ELSE IF create_access_token(email).status # 200
    THEN AuthAnswer("login", email, create_access_token(email).status, "token")
    ELSE AuthAnswer("login", email, 500, "response")

\* jwt.decode, auth.py 82: JWTError for a token not signed with the settings
decodes(token) == token.key = config.SECRET_KEY /\ token.alg = config.ALGORITHM

\* get_current_user, auth.py 72-92: the status it raises, or 200 and the User
get_current_user(token) ==
    IF ~PyTruth(config.SECRET_KEY) \/ ~PyTruth(config.ALGORITHM)
    THEN [status |-> 401, stage |-> "settings", user |-> {}]
    ELSE IF ~decodes(token) THEN [status |-> 401, stage |-> "decode", user |-> {}]
    ELSE IF token.sub = None THEN [status |-> 401, stage |-> "subject", user |-> {}]
    ELSE IF get_user_by_email(token.sub) = {}
    THEN [status |-> 401, stage |-> "user", user |-> {}]
    ELSE [status |-> 200, stage |-> "user", user |-> get_user_by_email(token.sub)]

\* an authenticated endpoint (GET /auth/protected, user_signup.py 76-81) behind
\* Depends(get_current_active_user), auth.py 94-97
protected_route(token) ==
    LET cu == get_current_user(token)
    IN  IF cu.status # 200 THEN AuthAnswer("protected", token.sub, cu.status, cu.stage)
        ELSE IF \E u \in cu.user : ~PyTruth(u.is_active)
        THEN AuthAnswer("protected", token.sub, 400, "active")
        ELSE AuthAnswer("protected", token.sub, 200, "handler")

auth_frame ==
    UNCHANGED <<agents, nextRowId, seq, twOwned, hist, req, last, batchVars, assoc, config>>

Login ==
    /\ \E email \in {"a@x.io", "i@x.io", "nobody@x.io"}, password \in Passwords :
         auth' = login(email, password)
    /\ UNCHANGED <<users, workers>>
    /\ auth_frame

ProtectedRoute ==
    /\ \E token \in Tokens : auth' = protected_route(token)
    /\ UNCHANGED <<users, workers>>
    /\ auth_frame

SignupEmails == {"a@x.io", "new@x.io"}

\* the id the users_id_seq sequence hands to an INSERT
next_user_id == 1 + Cardinality(users)

\* an INSERT into a users table without the UNIQUE constraint on email
insert_user_unconstrained(email) ==
    [status |-> 200, users |-> users \cup {UserRow(next_user_id, email, "Admin", True)}]

\* create_user, auth.py 39-50, on the table of database.py 52-65: email is UNIQUE NOT
\* NULL, so the INSERT of an email that has a row raises and nothing is stored; role,
\* is_active and is_verified take the values the call and the column defaults give
insert_user(email) ==
    IF UsersByEmail(email) # {} THEN [status |-> 500, users |-> users]
    ELSE [status |-> 200, users |-> users \cup {UserRow(next_user_id, email, "Admin", True)}]

\* signup, user_signup.py 28-33: the SELECT; a request that finds the email is answered
\* 400, any other goes on to the INSERT
SignupSelect(w) ==
    /\ workers[w].pc = "idle"
    /\ \E email \in SignupEmails :
         IF get_user_by_email(email) # {}
         THEN /\ auth' = AuthAnswer("signup", email, 400, "exists")
              /\ UNCHANGED workers
         ELSE /\ workers' = [workers EXCEPT ![w] = [op |-> "signup", pc |-> "insert",
                                                    email |-> email]]
              /\ UNCHANGED auth
    /\ UNCHANGED users
    /\ auth_frame

\* signup, user_signup.py 36-48: the INSERT and the answer.  The handler has no except
\* clause, so an INSERT that raises is answered 500; the response of one that stored
\* the row is validated against UserCreateResponse, whose user requires the role that
\* the User object does not carry, and is answered 500 as well
SignupInsert(w) ==
    /\ workers[w].op = "signup" /\ workers[w].pc = "insert"
    /\ users' = insert_user(workers[w].email).users
    /\ auth' = AuthAnswer("signup", workers[w].email, 500,
                          IF insert_user(workers[w].email).status = 200
                          THEN "response" ELSE "insert")
    /\ workers' = [workers EXCEPT ![w] = IdleWorker]
    /\ auth_frame

Signup == \E w \in Workers : SignupSelect(w) \/ SignupInsert(w)

(***************************************************************************)
(* Agent requests served by more than one worker process.  No handler of   *)
(* routers/agent.py awaits between its statements, so one process serves   *)
(* one request at a time; nothing in the code (no lock, no transaction     *)
(* over more than one statement, no version column) orders the statements  *)
(* of requests served by different processes.  Here each worker serves a   *)
(* request statement by statement: delete_agent in its five steps,         *)
(* update_agent as its SELECT of the stored row and, after the provider    *)
(* calls, its UPDATE of the whole row; create_agent is taken as a whole.   *)
(* The providers carry out what they are asked.  A worker that has         *)
(* answered an update keeps the request (pc "done") until it takes the     *)
(* next one.                                                               *)
(***************************************************************************)
Free(w) == workers[w].pc \in {"idle", "done"}

Serving(op, r) == [op |-> op, pc |-> r.pc, r |-> r]

\* the callers of the requests the workers serve: the owner of the agents
WorkerCallers == {u \in HandlerUsers : u.email = "a@x.io"}

worker_frame == UNCHANGED <<users, nextRowId, seq, req, batchVars, config, auth>>

\* lines 765-793: the lookup of a delete request
WorkerDeleteCall(w) ==
    /\ Free(w)
    /\ \E cu \in WorkerCallers, agent_id \in AgentIds :
         \E row \in FoundForDelete(cu, agent_id) :
           LET r == begin_delete(cu, agent_id, row) IN
           /\ workers' = [workers EXCEPT ![w] = IF r.pc = "agent" THEN Serving("delete", r)
                                                ELSE IdleWorker]
           /\ last' = IF r.pc = "agent" THEN last ELSE delete_refused(r)
    /\ UNCHANGED <<agents, twOwned, hist, assoc>>
    /\ worker_frame

\* steps 1 to 3, lines 795-847, each a call to the provider
WorkerDeleteUpstream(w) ==
    /\ workers[w].op = "delete" /\ workers[w].pc \in {"agent", "voice", "phone"}
    /\ LET r == workers[w].r IN
       /\ workers' = [workers EXCEPT ![w] =
             Serving("delete", CASE r.pc = "agent" -> delete_provider_agent(r, 200)
                                 [] r.pc = "voice" -> delete_voice(r, 200)
                                 [] r.pc = "phone" -> delete_phone_number(r, 200))]
       /\ assoc' = IF r.pc = "phone" THEN removed_number(r, 200) ELSE assoc
    /\ UNCHANGED <<agents, twOwned, hist, last>>
    /\ worker_frame

\* step 4, lines 849-873: the number is looked up in the account and released
WorkerReleaseNumber(w) ==
    /\ workers[w].op = "delete" /\ workers[w].pc = "number"
    /\ workers' = [workers EXCEPT ![w] =
                      Serving("delete", release_twilio_number(workers[w].r, "released"))]
    /\ twOwned' = released_numbers(workers[w].r, "released")
    /\ UNCHANGED <<agents, hist, last, assoc>>
    /\ worker_frame

\* step 5 and the answer, lines 875-916
WorkerDeleteRow(w) ==
    /\ workers[w].op = "delete" /\ workers[w].pc = "row"
    /\ LET r == [workers[w].r EXCEPT
                    !.pc = "idle",
                    !.calls = Append(@, Call("db.agents.delete", workers[w].r.agent_id))]
           rowcount == Cardinality(agents \ delete_local_row(workers[w].r))
       IN  /\ agents' = delete_local_row(workers[w].r)
           /\ last' = IF rowcount = 0 THEN DeleteAnswer(r, 404, "row")
                      ELSE DeleteAnswer(r, 200, "done")
           /\ hist' = IF rowcount = 0 THEN hist
                      ELSE [hist EXCEPT !.deleted = @ \cup {workers[w].r.agent_id}]
    /\ workers' = [workers EXCEPT ![w] = IdleWorker]
    /\ UNCHANGED <<twOwned, assoc>>
    /\ worker_frame

WorkerDelete ==
    \E w \in Workers :
        \/ WorkerDeleteCall(w)
        \/ WorkerDeleteUpstream(w)
        \/ WorkerReleaseNumber(w)
        \/ WorkerDeleteRow(w)

SingleField(first_message, prompt) ==
    [agent_name |-> "sales", email |-> "a@x.io", file |-> NoFile, voice_file |-> NoFile,
     first_message |-> first_message, prompt |-> prompt, llm |-> None,
     business_name |-> None, agent_type |-> None, speaking_style |-> None]

\* update requests that supply one field each
SingleFieldForms == {SingleField("hello again", None), SingleField(None, "p2")}

\* lines 483-526: the SELECTs of an update request; the stored values it read stay with
\* the request
WorkerUpdateSelect(w) ==
    /\ Free(w)
    /\ \E form \in SingleFieldForms :
         \E existing \in ExistingAgents(form) :
           LET found == lookup_existing(form, existing) IN
           IF Running(found)
           THEN /\ workers' = [workers EXCEPT ![w] =
                      [op |-> "update", pc |-> "write", form |-> form,
                       c |-> [found EXCEPT !.row = existing]]]
                /\ UNCHANGED last
           ELSE /\ workers' = [workers EXCEPT ![w] = IdleWorker]
                /\ last' = [Answer("update", Anybody, form.email, form.agent_name,
                                   found.agent_id, found)
                               EXCEPT !.supplied = Supplied(form),
                                      !.bad_files = BadFiles(form)]
    /\ UNCHANGED <<agents, twOwned, hist, assoc>>
    /\ worker_frame

\* lines 528-737: the provider calls and the UPDATE of the whole row, from the values
\* the request read and the fields it was sent
WorkerUpdateWrite(w) ==
    /\ workers[w].op = "update" /\ workers[w].pc = "write"
    /\ LET form == workers[w].form
           c0 == validate_document(workers[w].c, form)
           c1 == validate_voice(register_document(c0, form, DocOk, seq + 1), form)
           c2 == clone_voice(c1, form, VoiceOk, seq + 1)
           c == rewrite_agent(patch_provider_agent(c2, 200))
       IN  /\ agents' = rewritten(c, form)
           /\ last' = [Answer("update", Anybody, form.email, form.agent_name,
                              c.agent_id, c)
                          EXCEPT !.supplied = Supplied(form), !.bad_files = BadFiles(form)]
           /\ workers' = [workers EXCEPT ![w] =
                             [op |-> "update", pc |-> "done", form |-> form,
                              agent_id |-> c.agent_id, status |-> c.status]]
    /\ UNCHANGED <<twOwned, hist, assoc>>
    /\ worker_frame

WorkerUpdate == \E w \in Workers : WorkerUpdateSelect(w) \/ WorkerUpdateWrite(w)

Init ==
    /\ users = InitUsers
    /\ agents = {}
    /\ nextRowId = 1
    /\ seq = 0
    /\ twOwned = {}
    /\ hist = [deleted |-> {}, plain |-> {}, revoiced |-> {}]
    /\ req = Idle
    /\ last = NoAnswer
    /\ batch_calls = {}
    /\ jobs = <<>>
    /\ reply = NoReply
    /\ assoc = {}
    /\ workers = NoWorkers
    /\ config = Configured
    /\ auth = NoAuth

\* the deployments the authentication layer may run in: with or without the JWT
\* settings, and with a user an operator has deactivated
InitAuth ==
    /\ users = AuthUsers
    /\ agents = {}
    /\ nextRowId = 1
    /\ seq = 0
    /\ twOwned = {}
    /\ hist = [deleted |-> {}, plain |-> {}, revoiced |-> {}]
    /\ req = Idle
    /\ last = NoAnswer
    /\ batch_calls = {}
    /\ jobs = <<>>
    /\ reply = NoReply
    /\ assoc = {}
    /\ workers = NoWorkers
    /\ config \in Configs
    /\ auth = NoAuth

(***************************************************************************)
(* The service as wired.                                                   *)
(***************************************************************************)
CreateAgent == CreateAgentFrom(CreateForms)

UpdateAgent == UpdateAgentFrom(UpdateForms)

\* the current_user of Depends(get_current_active_user), for the token of any user
CurrentUsers == UNION {get_current_active_user(u.email) : u \in users}

DeleteAgent == DeleteAgentAs(CurrentUsers)

Next == CreateAgent \/ UpdateAgent \/ DeleteAgent

Spec == Init /\ [][Next]_vars

(***************************************************************************)
(* The handlers, applied to a current_user that has the selected columns   *)
(* by name.  Requests without a document; a voice sample is valid or       *)
(* absent.                                                                 *)
(***************************************************************************)
PlainForms(Forms) ==
    {f \in Forms : f.file = NoFile /\ f.voice_file \in {NoFile, File(".MP3", "audio/mpeg")}}

CreateAgentPlain == CreateAgentFrom(PlainForms(CreateForms))

UpdateAgentPlain == UpdateAgentFrom(PlainForms(UpdateForms))

DeleteAgentCall == DeleteAgentAs(HandlerUsers)

NextHandlers ==
    \/ CreateAgentPlain
    \/ UpdateAgentPlain
    \/ DeleteAgentCall
    \/ DeleteProviderAgent
    \/ DeleteVoice
    \/ DeletePhoneNumber
    \/ ReleaseTwilioNumber
    \/ DeleteLocalRow

SpecHandlers == Init /\ [][NextHandlers]_vars

(***************************************************************************)
(* The batch handlers, applied to a current_user that has the selected     *)
(* columns by name, on agents made by create-agent for one owner without   *)
(* files.  SpecBatch: submissions of every sheet and scheduled_time.       *)
(* SpecJobs: submissions of one number, and the requests about a job while *)
(* the provider moves it on.                                               *)
(***************************************************************************)
BatchAgentForms ==
    {f \in PlainForms(CreateForms) :
        f.voice_file = NoFile /\ f.email = "a@x.io" /\ f.agent_name = "sales"}

\* the provisioning requests that were answered with 200
CreateAgentForBatch == CreateAgentFrom(BatchAgentForms) /\ last'.status = 200

BatchCalling == BatchCallingFrom(BatchForms, MaxSubmissions)

NextBatch == CreateAgentForBatch \/ BatchCalling

SpecBatch == Init /\ [][NextBatch]_vars

OneNumberForms ==
    {BatchForm("sales", CsvFile, SheetColumn, <<ElevenDigits>>, None)}

SubmitBatch == BatchCallingFrom(OneNumberForms, MaxJobs)

NextJobs ==
    \/ CreateAgentForBatch
    \/ SubmitBatch
    \/ ProviderProgress
    \/ GetBatchCallingStatusByName
    \/ CancelBatchCalling
    \/ RetryBatchCalling

SpecJobs == Init /\ [][NextJobs]_vars

(***************************************************************************)
(* Requests about a job whose agent may have been deleted: the handler     *)
(* bodies of SpecJobs together with the steps of delete_agent.             *)
(***************************************************************************)
NextOrphans ==
    \/ CreateAgentForBatch
    \/ SubmitBatch
    \/ DeleteAgentCall
    \/ DeleteProviderAgent
    \/ DeleteVoice
    \/ DeletePhoneNumber
    \/ ReleaseTwilioNumber
    \/ DeleteLocalRow
    \/ GetBatchCallingStatusByName
    \/ CancelBatchCalling
    \/ RetryBatchCalling

SpecOrphans == Init /\ [][NextOrphans]_vars

(***************************************************************************)
(* SpecNumbers: pause and resume, applied to the current_user of           *)
(* SpecHandlers, on agents of one owner made without files.                *)
(***************************************************************************)
NumberAgentForms ==
    {f \in PlainForms(CreateForms) :
        f.voice_file = NoFile /\ f.email = "a@x.io" /\ f.agent_name = "sales"}

CreateAgentForNumbers == CreateAgentFrom(NumberAgentForms)

PauseTwilioNumber == PauseTwilioNumberAs(HandlerUsers)

ResumeTwilioNumber == ResumeTwilioNumberAs(HandlerUsers)

NextNumbers == CreateAgentForNumbers \/ PauseTwilioNumber \/ ResumeTwilioNumber

SpecNumbers == Init /\ [][NextNumbers]_vars

(***************************************************************************)
(* The authentication layer: login, an authenticated endpoint and signup.  *)
(***************************************************************************)
NextAuth == Login \/ ProtectedRoute \/ Signup

SpecAuth == InitAuth /\ [][NextAuth]_vars

(***************************************************************************)
(* The agent handlers served by MaxWorkers worker processes.               *)
(***************************************************************************)
\* a provisioning request that was answered with 200, served by a worker that is free
CreateAgentByWorker ==
    /\ \E w \in Workers : Free(w)
    /\ CreateAgentFrom(NumberAgentForms)
    /\ last'.status = 200

NextWorkers == CreateAgentByWorker \/ WorkerDelete \/ WorkerUpdate

SpecWorkers == Init /\ [][NextWorkers]_vars

(***************************************************************************)
(* Properties.                                                             *)
(***************************************************************************)
DbCalls ==
    {"db.users.select", "db.agents.select", "db.agents.insert", "db.agents.update",
     "db.agents.delete"}

UpstreamCalled(calls) == \E i \in 1..Len(calls) : calls[i][1] \notin DbCalls

IsPrefix(s, t) == Len(s) <= Len(t) /\ \A i \in 1..Len(s) : s[i] = t[i]

IsSuperAdmin(id) == \E u \in users : u.id = id /\ u.role = "Super Admin"

\* the rows a step deletes: those whose id no row has afterwards
RemovedRows == {a \in agents : \A b \in agents' : b.id # a.id}

\* the calls of a delete that runs its whole chain on the row r, with or without the
\* release of the number after the listing
CleanupCalls(r, release) ==
    <<Call("db.agents.select", r.agent_id), Call("el.agents.delete", r.agent_id)>>
      \o (IF r.voice_id \notin {None, DefaultVoice}
          THEN <<Call("el.voices.delete", r.voice_id)>> ELSE <<>>)
      \o (IF r.phone_number_id # None
          THEN <<Call("el.phone.delete", r.phone_number_id)>> ELSE <<>>)
      \o <<Call("tw.list", None)>>
      \o (IF release THEN <<Call("tw.release", r.twilio_number)>> ELSE <<>>)
      \o <<Call("db.agents.delete", r.agent_id)>>

C2_SuperAdminMayDeleteOthersGet404 ==
    [][last'.op = "delete" /\ req' = Idle =>
         \A a \in agents :
           (a.agent_id = last'.agent_id /\ a.user_id # last'.caller) =>
              IF IsSuperAdmin(last'.caller)
              THEN last'.status = 200 /\ a \in RemovedRows
              ELSE /\ last'.status = 404
                   /\ ~UpstreamCalled(last'.calls)
                   /\ agents' = agents]_vars

\* C3: a request changes (inserts, rewrites, removes) only rows of its caller, unless
\* the caller is Super Admin.
C3_OnlyOwnRowsTouched ==
    [][\A a \in (agents' \ agents) \cup (agents \ agents') :
         a.user_id = last'.caller \/ IsSuperAdmin(last'.caller)]_vars

CreatedWithDefaultVoice ==
    (last.op = "create" /\ last.status = 200 /\ last.agent_id \in hist.plain) =>
        \E a \in agents : a.agent_id = last.agent_id /\ a.voice_id = DefaultVoice

AbortSteps == {"document", "voice", "number", "agent"}

\* C6: a create-agent that ends in its document, voice, number or provider-agent step
\* inserts no row.
C6_AbortInsertsNoRow ==
    [][(last'.op = "create" /\ last'.stage \in AbortSteps) =>
          (last'.status # 200 /\ agents' = agents)]_vars

\* a create that bought a number and was then refused the agent by the provider
C6_Witness ==
    /\ last.op = "create" /\ last.stage = "agent" /\ last.status = 422
    /\ Made(last.calls, "tw.buy")
    /\ agents = {}

\* the link call was answered, with a status other than 200
LinkRefused(a) ==
    Made(a.calls, "el.phone.link") /\ a.link_status \notin {0, 200, Exc}

\* C7 as stated: when the link call is answered with a non-success status, the row is
\* persisted and the request answered 200.
C7_LinkFailureStillPersists ==
    [][(last'.op = "create" /\ LinkRefused(last')) =>
          /\ last'.status = 200
          /\ \E a \in agents' \ agents : a.agent_id = last'.agent_id]_vars

\* C7, amended: when the link call is answered with a non-success status and a user
\* with the request's email exists, the row is persisted and the request answered 200.
C7_LinkFailureStillPersistsForKnownEmail ==
    [][(last'.op = "create" /\ LinkRefused(last') /\ UsersByEmail(last'.email) # {}) =>
          /\ last'.status = 200
          /\ \E a \in agents' \ agents : a.agent_id = last'.agent_id]_vars

C7_Witness ==
    /\ last.op = "create" /\ last.status = 200 /\ last.link_status = 422
    /\ \E a \in agents : a.agent_id = last.agent_id

\* C8: create-agent looks the owner up by email only after the number purchase and the
\* provider agent's creation; when no user has the email it answers 404 and inserts
\* nothing, and the number it bought is owned at Twilio and named by no row, as is the
\* agent it created.
C8_OwnerResolvedAfterProvisioning ==
    [][(last'.op = "create" /\ Made(last'.calls, "db.users.select")) =>
          /\ 0 < FirstAt(last'.calls, "tw.buy")
          /\ FirstAt(last'.calls, "tw.buy") < FirstAt(last'.calls, "el.agents.create")
          /\ FirstAt(last'.calls, "el.agents.create")
                < FirstAt(last'.calls, "db.users.select")
          /\ UsersByEmail(last'.email) = {} =>
                /\ last'.status = 404
                /\ agents' = agents
                /\ LET n == last'.calls[FirstAt(last'.calls, "tw.buy")][2]
                   IN  n \in twOwned' /\ \A a \in agents' : a.twilio_number # n
                /\ last'.agent_id # None
                /\ \A a \in agents' : a.agent_id # last'.agent_id]_vars

C8_Witness ==
    /\ last.op = "create" /\ last.status = 404 /\ last.stage = "persist"
    /\ Made(last.calls, "el.agents.create")
    /\ \E n \in twOwned : \A a \in agents : a.twilio_number # n

\* C9: no two rows of the same user have the same agent_name.
C9_AgentNameUniquePerOwner ==
    \A a, b \in agents :
        (a.user_id = b.user_id /\ a.agent_name = b.agent_name) => a = b

FixedColumns == {"id", "user_id", "agent_id", "agent_name", "phone_number_id", "twilio_number"}

\* C11: an update-agent request leaves every row in place; in each row the optional
\* fields the request omitted keep their stored values, voice_id and documentation_id
\* keep theirs when no voice file / no document was uploaded and are never nulled, and
\* agent_name, phone_number_id and twilio_number keep theirs whatever was supplied.
C11_UpdateKeepsOmittedFields ==
    [][last'.op = "update" =>
         \A r \in agents : \E r2 \in agents' :
            /\ r2.id = r.id
            /\ \A f \in FixedColumns : r2[f] = r[f]
            /\ \A f \in OptionalFields \ last'.supplied : r2[f] = r[f]
            /\ "voice_file" \notin last'.supplied => r2.voice_id = r.voice_id
            /\ "file" \notin last'.supplied => r2.documentation_id = r.documentation_id
            /\ \A f \in {"voice_id", "documentation_id"} : Truthy(r[f]) => Truthy(r2[f])]_vars

\* an update that supplied first_message alone has rewritten it on a row that keeps its
\* prompt and its cloned voice
C11_Witness ==
    /\ last.op = "update" /\ last.status = 200 /\ last.supplied = {"first_message"}
    /\ \E a \in agents :
         /\ a.agent_id = last.agent_id
         /\ a.first_message = "hello again" /\ a.prompt = "p1"
         /\ a.voice_id \notin {None, DefaultVoice}

\* the statuses of a client error
ClientErrors == 400..499

\* C19: when a provider answers knowledge-base creation, indexing, voice cloning or the
\* agent's creation or update of a create-agent or update-agent request with a status
\* other than 200, the request is answered with that status.
C19_UpstreamStatusPassedThrough ==
    (last.op \in {"create", "update"} /\ last.refused # 0) => last.status = last.refused

\* C20: a create-agent or update-agent request with a document or voice file of a
\* disallowed extension or content type is answered with a 4xx status, and no provider
\* and no object storage has been called for it.
C20_BadFileRejectedBeforeAnyCall ==
    (last.op \in {"create", "update"} /\ last.bad_files # {}) =>
        (last.status \in ClientErrors /\ ~UpstreamCalled(last.calls))

HasTenDigits(cell) == Cardinality({j \in DOMAIN cell : cell[j] \in Digit}) >= 10

ValidCells(rows) == SelectSeq(rows, HasTenDigits)

Unparseable == {"soon"}

\* a request given such a text makes no submission and inserts no row, and is answered
\* 400 when it got as far as the schedule (404: no agent of that name for the caller)
C18_UnparseableScheduleRefused ==
    (reply.op = "batch" /\ reply.scheduled_time \in Unparseable) =>
        /\ reply.status \in {400, 404}
        /\ ~Made(reply.calls, "submit")
        /\ ~Made(reply.calls, "db.batch_calls.insert")
        /\ reply.job = None

C25_DeleteLooksForTheNumber ==
    (last.op = "delete" /\ last.stage \in {"done", "row"}) =>
        (Made(last.calls, "el.phone.delete") \/ Made(last.calls, "el.phone.list"))

C21_ToggleWithoutRowNotFound ==
    (last.op \in {"pause", "resume"} /\ last.stage = "lookup") =>
        (last.status = 404 /\ ~UpstreamCalled(last.calls))

\* the pause half of C21
C21_PauseWithoutRowNotFound ==
    (last.op = "pause" /\ last.stage = "lookup") =>
        (last.status = 404 /\ ~UpstreamCalled(last.calls))

C23_MissingSettingsAnswer500 ==
    (~PyTruth(config.SECRET_KEY) \/ ~PyTruth(config.ALGORITHM)) =>
        /\ (auth.op = "login" /\ auth.stage # "credentials") => auth.status = 500
        /\ auth.op = "protected" => auth.status = 500

\* the login half of C23
C23_LoginWithoutSettingsAnswers500 ==
    (~PyTruth(config.SECRET_KEY) \/ ~PyTruth(config.ALGORITHM)) =>
        ((auth.op = "login" /\ auth.stage # "credentials") =>
             (auth.status = 500 /\ auth.stage = "token"))

\* C26: a request to an authenticated endpoint whose token is valid and names a user with
\* is_active false in the users table is answered 400
C26_InactiveUserRejected ==
    (auth.op = "protected" /\ auth.stage \in {"active", "handler"}) =>
        \A u \in users :
            (u.email = auth.email /\ u.is_active = False) => auth.status = 400

\* C29: however the statements of signup requests interleave, the users table holds at
\* most one row for an email, no row is changed or removed, and a signup for an email
\* that has a row stores nothing
C29_OneRowPerEmail ==
    [][/\ \A u \in users' : Cardinality({v \in users' : v.email = u.email}) = 1
       /\ users \subseteq users'
       /\ \A w \in Workers :
            (workers[w].pc = "insert" /\ workers'[w].pc = "idle"
               /\ UsersByEmail(workers[w].email) # {}) => users' = users
       /\ (auth'.op = "signup" /\ auth'.stage = "exists") => users' = users]_vars

\* two signups for one new email both passed the SELECT; the INSERT of the second was
\* refused and the email has its one row
C29_Witness ==
    /\ auth.op = "signup" /\ auth.stage = "insert" /\ auth.email = "new@x.io"
    /\ Cardinality(UsersByEmail("new@x.io")) = 1

C28_BothUpdatesSurvive ==
    (/\ \A w \in Workers : workers[w].op = "update" /\ workers[w].pc = "done"
                              /\ workers[w].status = 200
     /\ workers[1].agent_id = workers[2].agent_id
     /\ workers[1].form # workers[2].form)
        => \A r \in agents :
              r.agent_id = workers[1].agent_id =>
                  \A w \in Workers :
                      /\ Truthy(workers[w].form.first_message)
                            => r.first_message = workers[w].form.first_message
                      /\ Truthy(workers[w].form.prompt) => r.prompt = workers[w].form.prompt

====
